---- MODULE Spec2Model ----
(***************************************************************************)
(* Model of anaplan_api/CertificateAuthentication.py.                      *)
(*                                                                         *)
(* Python values are modelled as follows.  A str is a sequence of code     *)
(* points, a bytes object a sequence of integers 0..255.  A value that     *)
(* can be a str, a bytes object or None is a record [t, v] whose t is      *)
(* "str", "bytes" or "None".  The outcome of a call is a record whose      *)
(* kind is "return" or "raise".                                            *)
(*                                                                         *)
(* The cryptography package is modelled by a small RSA with the same       *)
(* structure (digest, PKCS#1 v1.5 style encoding, modular exponentiation)  *)
(* and PEM by a four-token text format (marker, label, payload, marker).   *)
(* Text-mode file reads assume a UTF-8 locale.                             *)
(***************************************************************************)
EXTENDS Integers, Sequences, FiniteSets, TLC

\* ---------------------------------------------------------------- bounds
\* number of distinct values the OS random source hands out in the model
MaxEntropy == 2
\* number of file-system changes made by the environment
MaxWrites == 2

\* ------------------------------------------------------ program constants
\* os.urandom(150)
NONCE_LEN == 150

\* ------------------------------------------------------------ characters
CR == 13
LF == 10
DASH == 45
PAD == 61

\* 'CACertificate '
CACertificate == <<67, 65, 67, 101, 114, 116, 105, 102, 105, 99, 97, 116, 101, 32>>
\* '{ "encodedData":"'
BodyHead == <<123, 32, 34, 101, 110, 99, 111, 100, 101, 100, 68, 97, 116, 97, 34, 58, 34>>
\* '", "encodedSignedData":"'
BodyMid == <<34, 44, 32, 34, 101, 110, 99, 111, 100, 101, 100, 83, 105, 103, 110, 101, 100,
             68, 97, 116, 97, 34, 58, 34>>
\* '"}'
BodyTail == <<34, 125>>
\* str(None)
NoneText == <<78, 111, 110, 101>>

\* ------------------------------------------------------------ evaluation
\* The element of a one-element set.  Only({e(x) : x \in {v}}) is e(v) with v
\* evaluated once, however often e uses x: an intermediate result of the code
\* is computed once and then held in a local.
Only(S) == CHOOSE r \in S : TRUE

\* ------------------------------------------------------------ base64
\* the base64 alphabet: A-Z a-z 0-9 + /
b64char(i) ==
  IF i < 26 THEN 65 + i
  ELSE IF i < 52 THEN 97 + (i - 26)
  ELSE IF i < 62 THEN 48 + (i - 52)
  ELSE IF i = 62 THEN 43 ELSE 47

\* the byte at position j of b, 0 past its end
ByteAt(b, j) == IF j <= Len(b) THEN b[j] ELSE 0

\* character i of the base64 text of b: group g of three bytes gives four
\* characters, '=' standing for the characters no byte of b reaches
b64at(b, i) ==
  LET g == (i - 1) \div 4
      pos == (i - 1) % 4
      j == (3 * g) + 1
  IN IF pos = 0 THEN b64char(ByteAt(b, j) \div 4)
     ELSE IF pos = 1 THEN b64char(((ByteAt(b, j) % 4) * 16) + (ByteAt(b, j + 1) \div 16))
     ELSE IF pos = 2 THEN
       IF j + 1 > Len(b) THEN PAD
       ELSE b64char(((ByteAt(b, j + 1) % 16) * 4) + (ByteAt(b, j + 2) \div 64))
     ELSE IF j + 2 > Len(b) THEN PAD
     ELSE b64char(ByteAt(b, j + 2) % 64)

\* base64.b64encode(b)
b64encode(b) ==
  Only({[i \in 1 .. (4 * ((Len(v) + 2) \div 3)) |-> b64at(v, i)] : v \in {b}})

\* ------------------------------------------------------------ text
\* str.encode('utf-8') of one code point below 2048
encode_char(c) == IF c < 128 THEN <<c>> ELSE <<192 + (c \div 64), 128 + (c % 64)>>

\* str.encode('utf-8')
RECURSIVE encode_utf8(_)
encode_utf8(s) ==
  IF Len(s) = 0 THEN <<>>
  ELSE IF \A i \in 1 .. Len(s) : s[i] < 128 THEN s
  ELSE encode_char(s[1]) \o encode_utf8(Tail(s))

\* bytes.decode('utf-8'): [ok, v]; ok is FALSE where Python raises
\* UnicodeDecodeError (sequences of more than two bytes are outside the model)
RECURSIVE decode_utf8(_)
decode_utf8(b) ==
  IF \A i \in 1 .. Len(b) : b[i] < 128 THEN [ok |-> TRUE, v |-> b]
  ELSE IF b[1] < 128 THEN
    Only({IF r.ok THEN [ok |-> TRUE, v |-> <<b[1]>> \o r.v] ELSE r :
         r \in {decode_utf8(Tail(b))}})
  ELSE IF b[1] >= 194 /\ b[1] < 224 /\ Len(b) >= 2 /\ b[2] >= 128 /\ b[2] < 192 THEN
    Only({IF r.ok
          THEN [ok |-> TRUE, v |-> <<((b[1] - 192) * 64) + (b[2] - 128)>> \o r.v]
          ELSE r :
          r \in {decode_utf8(SubSeq(b, 3, Len(b)))}})
  ELSE [ok |-> FALSE, v |-> <<>>]

\* universal newlines of text mode: '\r\n' and '\r' become '\n'
RECURSIVE translate_newlines(_)
translate_newlines(s) ==
  IF \A i \in 1 .. Len(s) : s[i] # CR THEN s
  ELSE IF s[1] = CR THEN
    IF Len(s) >= 2 /\ s[2] = LF THEN <<LF>> \o translate_newlines(SubSeq(s, 3, Len(s)))
    ELSE <<LF>> \o translate_newlines(Tail(s))
  ELSE <<s[1]>> \o translate_newlines(Tail(s))

\* open(path, "r").read() applied to the bytes of the file
text_read(data) ==
  Only({IF d.ok THEN [kind |-> "return", exc |-> "", v |-> translate_newlines(d.v)]
        ELSE [kind |-> "raise", exc |-> "UnicodeDecodeError", v |-> <<>>] :
        d \in {decode_utf8(data)}})

\* ------------------------------------------------------------ Python values
PyStr(v) == [t |-> "str", v |-> v]
PyBytes(v) == [t |-> "bytes", v |-> v]
PyNone == [t |-> "None", v |-> <<>>]

\* str(x) for x a str or None
py_str(x) == IF x.t = "None" THEN NoneText ELSE x.v

\* issubclass(exc, ValueError)
IsValueError(exc) == exc \in {"ValueError", "UnicodeDecodeError"}

\* ------------------------------------------------------------ PEM and keys
\* labels of the PEM text: private key, encrypted private key, certificate
LabelKey == 75
LabelEncrypted == 88
LabelCert == 67

\* payloads: a 2-byte RSA key, a 1-byte RSA key (too small for the digest),
\* an elliptic-curve key
RsaKey == [type |-> "RSA", n |-> 3233, e |-> 17, d |-> 2753, size |-> 2]
RsaSmallKey == [type |-> "RSA", n |-> 187, e |-> 7, d |-> 23, size |-> 1]
EcKey == [type |-> "EC", n |-> 0, e |-> 0, d |-> 0, size |-> 0]
NoKey == [type |-> "unbound", n |-> 0, e |-> 0, d |-> 0, size |-> 0]

KeyOfPayload(b) ==
  IF b = 82 THEN RsaKey
  ELSE IF b = 114 THEN RsaSmallKey
  ELSE IF b = 101 THEN EcKey
  ELSE NoKey

\* the PEM text of a label and a payload, with the given end of line
Pem(label, payload, eol) == <<DASH, label>> \o eol \o <<payload>> \o eol \o <<DASH>>

\* the text without its line ends
RECURSIVE strip_eol(_)
strip_eol(b) ==
  IF \A i \in 1 .. Len(b) : b[i] \notin {CR, LF} THEN b
  ELSE IF b[1] \in {CR, LF} THEN strip_eol(Tail(b))
  ELSE <<b[1]>> \o strip_eol(Tail(b))

\* serialization.load_pem_private_key(data, None, backend)
load_pem_private_key(data) ==
  IF data.t # "bytes" THEN [kind |-> "raise", exc |-> "TypeError", key |-> NoKey]
  ELSE Only({IF ~(Len(tok) = 4 /\ tok[1] = DASH /\ tok[4] = DASH)
             THEN [kind |-> "raise", exc |-> "ValueError", key |-> NoKey]
             ELSE IF tok[2] = LabelEncrypted
             THEN [kind |-> "raise", exc |-> "TypeError", key |-> NoKey]
             ELSE IF tok[2] # LabelKey \/ KeyOfPayload(tok[3]) = NoKey
             THEN [kind |-> "raise", exc |-> "ValueError", key |-> NoKey]
             ELSE [kind |-> "return", exc |-> "", key |-> KeyOfPayload(tok[3])] :
             tok \in {strip_eol(data.v)}})

RECURSIVE ModExp(_, _, _)
ModExp(b, x, n) ==
  IF x = 0 THEN 1 % n
  ELSE Only({IF x % 2 = 0 THEN (h * h) % n ELSE (((h * h) % n) * b) % n :
            h \in {ModExp(b, x \div 2, n)}})

\* hashes.SHA512(): the digest of the message, one byte wide in the model;
\* the digest of m[lo..hi] is put together from those of its two halves
RECURSIVE digest_range(_, _, _)
digest_range(m, lo, hi) ==
  IF lo > hi THEN 0
  ELSE IF lo = hi THEN m[lo] % 256
  ELSE Only({((digest_range(m, lo, mid) * ModExp(31, hi - mid, 256))
              + digest_range(m, mid + 1, hi)) % 256 :
             mid \in {(lo + hi) \div 2}})

SHA512(m) ==
  Only({((7 * ModExp(31, Len(v), 256)) + digest_range(v, 1, Len(v))) % 256 : v \in {m}})

\* padding.PKCS1v15(): the encoded message 0x01 || digest
PKCS1v15(m) == 256 + SHA512(m)

\* key.sign(message, padding.PKCS1v15(), hashes.SHA512())
key_sign(key, message) ==
  IF key.type # "RSA" \/ message.t # "bytes"
  THEN [kind |-> "raise", exc |-> "TypeError", sig |-> <<>>]
  ELSE Only({IF em >= key.n
             THEN [kind |-> "raise", exc |-> "ValueError", sig |-> <<>>]
             ELSE Only({[kind |-> "return", exc |-> "", sig |-> <<s \div 256, s % 256>>] :
                        s \in {ModExp(em, key.d, key.n)}}) :
             em \in {PKCS1v15(message.v)}})

\* ------------------------------------------------------------ file system
\* the entry of a path that names no regular file
NoFile == <<-1>>

\* os.path.isfile(p)
isfile(fsys, p) == p \in DOMAIN fsys /\ fsys[p] # NoFile

\* ------------------------------------------------------------ inputs
\* the one path of the model: 'k'
PathK == <<107>>
Paths == {PathK}

\* PEM texts
KeyPemText == Pem(LabelKey, 82, <<LF>>)
SmallKeyPemText == Pem(LabelKey, 114, <<LF>>)
EcKeyPemText == Pem(LabelKey, 101, <<LF>>)
EncryptedKeyPemText == Pem(LabelEncrypted, 82, <<LF>>)
TruncatedKeyPemText == <<DASH, LabelKey, LF, 82>>
CertPemText == Pem(LabelCert, 99, <<LF>>)
CertPemTextCRLF == Pem(LabelCert, 99, <<CR, LF>>)
\* 'x' followed by e-acute
GarbageText == <<120, 233>>

\* what a file can hold (bytes)
FileContents ==
  {KeyPemText, SmallKeyPemText, EcKeyPemText, EncryptedKeyPemText, TruncatedKeyPemText,
   CertPemText, CertPemTextCRLF, <<255>>}

\* what a caller can pass (str): a path or inline text
Arguments == Paths \cup {KeyPemText, CertPemTextCRLF, GarbageText}

Entropy == 0 .. (MaxEntropy - 1)

\* ------------------------------------------------------------ state
VARIABLES
  fs,              \* the file system: path -> bytes of the file, or NoFile
  writes,          \* number of changes made to the file system
  pc,              \* position of the caller: "idle", or a line of generate_post_data
  priv_key,        \* generate_post_data: its argument
  unsigned_nonce,  \* generate_post_data: local
  signed_nonce,    \* generate_post_data: local
  signing,         \* what happened inside sign_string in the call in progress
  entropy,         \* what the OS random source produced for the call in progress
  draws,           \* number of create_nonce calls of the call in progress
  result           \* what the last completed call gave its caller

vars == <<fs, writes, pc, priv_key, unsigned_nonce, signed_nonce, signing, entropy, draws, result>>

\* ------------------------------------------------------------ auth_header
\* resolve_pub_cert keeping an earlier decision that the string names no file
resolve_pub_cert_remembered(fsys, pub_cert) ==
  IF (result.op = "auth_header" /\ result.input = pub_cert /\ result.entry = NoFile)
     \/ ~isfile(fsys, pub_cert)
  THEN [kind |-> "return", exc |-> "", v |-> pub_cert]
  ELSE text_read(fsys[pub_cert])

\* lines 32-36: the text of the certificate
resolve_pub_cert(fsys, pub_cert) ==
  IF ~isfile(fsys, pub_cert) THEN [kind |-> "return", exc |-> "", v |-> pub_cert]
  ELSE text_read(fsys[pub_cert])

\* line 38: the header map
header_string(my_pem_text) ==
  Only({[h \in {"AUTHORIZATION"} |-> CACertificate \o decode_utf8(b64).v] :
       b64 \in {b64encode(encode_utf8(my_pem_text))}})

NoHeader == [h \in {} |-> <<>>]

\* lines 27-40
auth_header(fsys, pub_cert) ==
  Only({IF t.kind = "raise" THEN [kind |-> "raise", exc |-> t.exc, header |-> NoHeader]
        ELSE [kind |-> "return", exc |-> "", header |-> header_string(t.v)] :
        t \in {resolve_pub_cert(fsys, pub_cert)}})

\* ------------------------------------------------------------ create_nonce
\* os.urandom(n): the n bytes the source yields when its state is seed
os_urandom(n, seed) == [i \in 1 .. n |-> ((seed * 101) + (i * ((2 * seed) + 7))) % 256]

\* create_nonce handing out the nonce of the previous call again
create_nonce_reused(seed) ==
  IF result.op = "generate_post_data" /\ Len(result.signing.message) = NONCE_LEN
  THEN result.signing.message
  ELSE os_urandom(NONCE_LEN, seed)

\* lines 64-68
create_nonce(seed) == os_urandom(NONCE_LEN, seed)

\* ------------------------------------------------------------ sign_string
\* lines 84-88: what is handed to load_pem_private_key (the str itself, or
\* the encoded text of the file)
resolve_priv_key(fsys, key_arg) ==
  IF ~isfile(fsys, key_arg) THEN [kind |-> "return", exc |-> "", data |-> PyStr(key_arg)]
  ELSE Only({IF t.kind = "raise" THEN [kind |-> "raise", exc |-> t.exc, data |-> PyNone]
             ELSE [kind |-> "return", exc |-> "", data |-> PyBytes(encode_utf8(t.v))] :
             t \in {text_read(fsys[key_arg])}})

\* lines 84-88: the body of the first try block
load_attempt(fsys, key_arg) ==
  Only({IF r.kind = "raise" THEN [kind |-> "raise", exc |-> r.exc, key |-> NoKey]
        ELSE load_pem_private_key(r.data) :
        r \in {resolve_priv_key(fsys, key_arg)}})

\* lines 83-90: the first try block with its except clause, which logs a
\* ValueError and goes on; key is NoKey when the name stays unbound
load_key(fsys, key_arg) ==
  Only({IF l.kind = "return"
        THEN [kind |-> "return", exc |-> "", key |-> l.key, load |-> "loaded"]
        ELSE IF IsValueError(l.exc)
        THEN [kind |-> "return", exc |-> "", key |-> NoKey, load |-> l.exc]
        ELSE [kind |-> "raise", exc |-> l.exc, key |-> NoKey, load |-> l.exc] :
        l \in {load_attempt(fsys, key_arg)}})

\* lines 91-95: the second try block with its except clause, which logs a
\* ValueError and lets the function end without a return statement
sign_with(key, message) ==
  IF key = NoKey
  THEN [kind |-> "raise", exc |-> "UnboundLocalError", value |-> PyNone, sign |-> "not attempted"]
  ELSE Only({IF g.kind = "return"
             THEN [kind |-> "return", exc |-> "", sign |-> "signed",
                   value |-> PyStr(decode_utf8(b64encode(g.sig)).v)]
             ELSE IF IsValueError(g.exc)
             THEN [kind |-> "return", exc |-> "", value |-> PyNone, sign |-> g.exc]
             ELSE [kind |-> "raise", exc |-> g.exc, value |-> PyNone, sign |-> g.exc] :
             g \in {key_sign(key, PyBytes(message))}})

\* lines 75-95; load and sign say what happened in the two try blocks
sign_string(fsys, message, key_arg) ==
  Only({IF l.kind = "raise"
        THEN [kind |-> "raise", exc |-> l.exc, value |-> PyNone, load |-> l.load,
              sign |-> "not attempted", key |-> NoKey, message |-> message]
        ELSE Only({[kind |-> g.kind, exc |-> g.exc, value |-> g.value, load |-> l.load,
                    sign |-> g.sign, key |-> l.key, message |-> message] :
                   g \in {sign_with(l.key, message)}}) :
        l \in {load_key(fsys, key_arg)}})

\* ------------------------------------------------------------ generate_post_data
\* json_string encoding a second nonce instead of the one that was signed
json_string_regenerated(nonce, signed) ==
  Only({BodyHead \o decode_utf8(b64).v \o BodyMid \o signed \o BodyTail :
       b64 \in {b64encode(create_nonce((entropy + 1) % MaxEntropy))}})

\* line 56
json_string(nonce, signed) ==
  Only({BodyHead \o decode_utf8(b64).v \o BodyMid \o signed \o BodyTail :
       b64 \in {b64encode(nonce)}})

NoSigning == [load |-> "", sign |-> "", key |-> NoKey, message |-> <<>>, entry |-> NoFile]

NoResult ==
  [op |-> "", input |-> <<>>, entry |-> NoFile, kind |-> "", exc |-> "",
   header |-> NoHeader, body |-> <<>>, signing |-> NoSigning, draws |-> 0]

\* the entry of the file system an argument names
Entry(fsys, arg) == IF isfile(fsys, arg) THEN fsys[arg] ELSE NoFile

Init ==
  /\ fs = [p \in Paths |-> NoFile]
  /\ writes = 0
  /\ pc = "idle"
  /\ priv_key = <<>>
  /\ unsigned_nonce = <<>>
  /\ signed_nonce = <<>>
  /\ signing = NoSigning
  /\ entropy = 0
  /\ draws = 0
  /\ result = NoResult

\* the environment writes a file
WriteFile(p, c) ==
  /\ writes < MaxWrites
  /\ fs[p] # c
  /\ fs' = [fs EXCEPT ![p] = c]
  /\ writes' = writes + 1
  /\ UNCHANGED <<pc, priv_key, unsigned_nonce, signed_nonce, signing, entropy, draws, result>>

\* the environment removes a file
DeleteFile(p) ==
  /\ writes < MaxWrites
  /\ fs[p] # NoFile
  /\ fs' = [fs EXCEPT ![p] = NoFile]
  /\ writes' = writes + 1
  /\ UNCHANGED <<pc, priv_key, unsigned_nonce, signed_nonce, signing, entropy, draws, result>>

\* a call of auth_header(pub_cert)
AuthHeader(pub_cert) ==
  /\ pc = "idle"
  /\ \E r \in {auth_header(fs, pub_cert)} :
        result' = [NoResult EXCEPT !.op = "auth_header", !.input = pub_cert,
                                   !.entry = Entry(fs, pub_cert), !.kind = r.kind,
                                   !.exc = r.exc, !.header = r.header]
  /\ UNCHANGED <<fs, writes, pc, priv_key, unsigned_nonce, signed_nonce, signing, entropy, draws>>

\* generate_post_data(k) is called and runs line 52
CreateNonce(k, seed) ==
  /\ pc = "idle"
  /\ pc' = "L53"
  /\ priv_key' = k
  /\ entropy' = seed
  /\ unsigned_nonce' = create_nonce(seed)
  /\ draws' = 1
  /\ UNCHANGED <<fs, writes, signed_nonce, signing, result>>

\* line 53
SignNonce ==
  /\ pc = "L53"
  /\ \E r \in {sign_string(fs, unsigned_nonce, priv_key)} :
     \E g \in {[load |-> r.load, sign |-> r.sign, key |-> r.key, message |-> r.message,
                entry |-> Entry(fs, priv_key)]} :
        IF r.kind = "raise"
        THEN /\ result' = [NoResult EXCEPT !.op = "generate_post_data", !.input = priv_key,
                                           !.entry = g.entry, !.kind = "raise",
                                           !.exc = r.exc, !.signing = g, !.draws = draws]
             /\ pc' = "idle"
             /\ priv_key' = <<>>
             /\ unsigned_nonce' = <<>>
             /\ entropy' = 0
             /\ draws' = 0
             /\ UNCHANGED <<signed_nonce, signing>>
        ELSE /\ signed_nonce' = py_str(r.value)
             /\ signing' = g
             /\ pc' = "L56"
             /\ UNCHANGED <<priv_key, unsigned_nonce, entropy, draws, result>>
  /\ UNCHANGED <<fs, writes>>

\* lines 56-58
ReturnPostData ==
  /\ pc = "L56"
  /\ result' = [NoResult EXCEPT !.op = "generate_post_data", !.input = priv_key,
                                !.entry = signing.entry, !.kind = "return",
                                !.body = json_string(unsigned_nonce, signed_nonce),
                                !.signing = signing, !.draws = draws]
  /\ pc' = "idle"
  /\ priv_key' = <<>>
  /\ unsigned_nonce' = <<>>
  /\ signed_nonce' = <<>>
  /\ signing' = NoSigning
  /\ entropy' = 0
  /\ draws' = 0
  /\ UNCHANGED <<fs, writes>>

Next ==
  \/ \E p \in Paths, c \in FileContents : WriteFile(p, c)
  \/ \E p \in Paths : DeleteFile(p)
  \/ \E a \in Arguments : AuthHeader(a)
  \/ \E a \in Arguments, seed \in Entropy : CreateNonce(a, seed)
  \/ SignNonce
  \/ ReturnPostData

Spec == Init /\ [][Next]_vars

\* ==================================================================
\* Reading a result back, as a caller or a test would
\* ==================================================================
b64index(c) ==
  IF c >= 65 /\ c <= 90 THEN c - 65
  ELSE IF c >= 97 /\ c <= 122 THEN (c - 97) + 26
  ELSE IF c >= 48 /\ c <= 57 THEN (c - 48) + 52
  ELSE IF c = 43 THEN 62 ELSE 63

b64ungroup(c) ==
  Only({IF c[3] = PAD THEN <<n \div 65536>>
               ELSE IF c[4] = PAD THEN <<n \div 65536, (n \div 256) % 256>>
               ELSE <<n \div 65536, (n \div 256) % 256, n % 256>> :
    n \in {(b64index(c[1]) * 262144) + (b64index(c[2]) * 4096)
         + ((IF c[3] = PAD THEN 0 ELSE b64index(c[3])) * 64)
         + (IF c[4] = PAD THEN 0 ELSE b64index(c[4]))}})

\* the number of '=' that end the text
Padding(c) ==
  IF Len(c) >= 2 /\ c[Len(c) - 1] = PAD THEN 2
  ELSE IF Len(c) >= 1 /\ c[Len(c)] = PAD THEN 1 ELSE 0

\* byte j of the bytes that base64 text c stands for
b64byte(c, j) ==
  b64ungroup(<<c[(4 * ((j - 1) \div 3)) + 1], c[(4 * ((j - 1) \div 3)) + 2],
               c[(4 * ((j - 1) \div 3)) + 3], c[(4 * ((j - 1) \div 3)) + 4]>>)[((j - 1) % 3) + 1]

\* base64 decoding of a text whose length is a multiple of four
b64decode(c) ==
  Only({[j \in 1 .. ((3 * (Len(v) \div 4)) - Padding(v)) |-> b64byte(v, j)] : v \in {c}})

\* the index of the first '"' of body at or after position from
QuoteFrom(body, from) ==
  Only({CHOOSE i \in Q : \A j \in Q : i <= j :
       Q \in {{i \in from .. Len(body) : body[i] = 34}}})

EncodedData(body) ==
  SubSeq(body, Len(BodyHead) + 1, QuoteFrom(body, Len(BodyHead) + 1) - 1)

EncodedSignedData(body) ==
  Only({SubSeq(body, from, QuoteFrom(body, from) - 1) :
       from \in {QuoteFrom(body, Len(BodyHead) + 1) + Len(BodyMid)}})

\* RSA PKCS#1 v1.5 / SHA-512 verification with the public part of key
Verify(key, message, sig) ==
  /\ Len(sig) = 2
  /\ (sig[1] * 256) + sig[2] < key.n
  /\ ModExp((sig[1] * 256) + sig[2], key.e, key.n) = PKCS1v15(message)

\* the bytes of the key material a completed call was given
Material(r) == IF r.entry # NoFile THEN r.entry ELSE encode_utf8(r.input)

\* the bytes are an unencrypted PEM private key
ParsesAsKey(bytes) == load_pem_private_key(PyBytes(bytes)).kind = "return"

\* the bytes are a PEM certificate
ParsesAsCert(bytes) ==
  LET tok == strip_eol(bytes)
  IN Len(tok) = 4 /\ tok[1] = DASH /\ tok[2] = LabelCert /\ tok[4] = DASH

PostDone == result.op = "generate_post_data"
HeaderDone == result.op = "auth_header"

\* the file system a completed call saw, as far as its argument goes
FsAtCall(r) == [p \in Paths |-> IF p = r.input THEN r.entry ELSE NoFile]

\* which of the three outcomes of the signing operation a call had
OutcomeClass(r) ==
  IF r.signing.load # "loaded" THEN "key-load failure"
  ELSE IF r.signing.sign # "signed" THEN "signing failure"
  ELSE "success"

\* what the caller observes: a returned value or the class of the exception
Observable(r) == [kind |-> r.kind, exc |-> r.exc]

\* ==================================================================
\* Claims
\* ==================================================================

\* C1: when signing fails after the key was loaded, generate_post_data returns
\* no body (the failure reaches the caller), and no returned body carries the
\* text of an absent result in encodedSignedData.
C1_SigningFailureReachesCaller ==
  PostDone =>
    /\ (result.signing.load = "loaded" /\ result.signing.sign # "signed")
         => result.kind = "raise"
    /\ result.kind = "return" => EncodedSignedData(result.body) # NoneText

\* C2: a private-key input that does not parse as an unencrypted PEM private
\* key makes generate_post_data end in a KeyLoadError, without a body.
C2_MalformedKeyIsKeyLoadError ==
  (PostDone /\ ~ParsesAsKey(Material(result)))
    => (result.kind = "raise" /\ result.exc = "KeyLoadError" /\ result.body = <<>>)

\* C3: key-load failure, signing failure and success are pairwise
\* distinguishable by the caller, and no failure comes back as a body.
C3_FailureIsNotABody ==
  (PostDone /\ OutcomeClass(result) # "success") => result.kind = "raise"

C3_ClassesDiffer ==
  (PostDone /\ result'.op = "generate_post_data"
     /\ OutcomeClass(result) # OutcomeClass(result'))
    => Observable(result) # Observable(result')

C3_OutcomesDistinguishable == [](C3_FailureIsNotABody) /\ [][C3_ClassesDiffer]_vars

\* C4: key material is resolved in the same way for the certificate and for the
\* private key, and a valid private key given as inline PEM text has the outcome
\* of the same key given as the path of a file holding that text.
C4_SameResolution ==
  \A a \in Arguments :
    LET c == resolve_pub_cert(fs, a)
        k == resolve_priv_key(fs, a)
    IN /\ c.kind = k.kind
       /\ c.kind = "return" =>
            IF k.data.t = "str" THEN k.data.v = c.v ELSE k.data.v = encode_utf8(c.v)

C4_InlineAsFile ==
  (PostDone /\ result.entry = NoFile /\ ParsesAsKey(encode_utf8(result.input))) =>
    LET f == [p \in Paths |-> encode_utf8(result.input)]
        r == sign_string(f, result.signing.message, PathK)
    IN /\ r.kind = "return"
       /\ result.kind = "return"
       /\ result.body = json_string(result.signing.message, py_str(r.value))

C4_InlineKeySameAsFileKey == C4_SameResolution /\ C4_InlineAsFile

\* C5: for a valid PEM certificate, inline or in a file, auth_header returns a
\* map with the one entry AUTHORIZATION whose value is "CACertificate " followed
\* by base64 text that decodes to exactly the certificate's bytes.
C5_HeaderDecodesToCertificate ==
  (HeaderDone /\ ParsesAsCert(Material(result))) =>
    /\ result.kind = "return"
    /\ DOMAIN result.header = {"AUTHORIZATION"}
    /\ SubSeq(result.header["AUTHORIZATION"], 1, Len(CACertificate)) = CACertificate
    /\ b64decode(SubSeq(result.header["AUTHORIZATION"], Len(CACertificate) + 1,
                        Len(result.header["AUTHORIZATION"]))) = Material(result)

\* C6: in one call of generate_post_data the nonce encoded in encodedData is
\* byte for byte the nonce handed to the signing operation, and the call
\* generates exactly one nonce.
C6_OneNonceEncodedAndSigned ==
  /\ (PostDone /\ result.kind = "return") =>
       /\ b64decode(EncodedData(result.body)) = result.signing.message
       /\ result.draws = 1
  /\ pc = "L56" => (signing.message = unsigned_nonce /\ draws = 1)

C6_Witness ==
  /\ PostDone /\ result.kind = "return" /\ result.signing.sign = "signed"
  /\ Len(result.signing.message) = NONCE_LEN

\* C7: for a valid RSA key, every body returned by generate_post_data carries a
\* signature that verifies, under PKCS#1 v1.5 with SHA-512 and the public key,
\* over the raw nonce bytes that encodedData decodes to.
C7_SignatureVerifies ==
  (PostDone /\ result.kind = "return" /\ result.signing.key.type = "RSA") =>
    Verify(result.signing.key, b64decode(EncodedData(result.body)),
           b64decode(EncodedSignedData(result.body)))

\* C8: every call of generate_post_data draws one new 150-byte nonce from the
\* OS random source; nothing of it is kept after the call, so the nonce of a
\* call is what the source gave that call, whatever earlier calls did.
C8_FreshNonceEveryCall ==
  /\ pc # "idle" =>
       /\ Len(unsigned_nonce) = NONCE_LEN
       /\ unsigned_nonce = os_urandom(NONCE_LEN, entropy)
       /\ draws = 1
  /\ pc = "idle" => (unsigned_nonce = <<>> /\ draws = 0)

C8_Witness ==
  /\ pc = "L53"
  /\ PostDone /\ Len(result.signing.message) = NONCE_LEN
  /\ unsigned_nonce # result.signing.message

\* C9: key-material resolution is idempotent and uncached: an unchanged file
\* resolves to the same text again, inline text resolves to itself, and every
\* call uses the file (and whether it exists) as it is at the time of the call.
C9_UsesCurrentFile ==
  /\ (HeaderDone /\ result.kind = "return") =>
       result.header =
         header_string(IF result.entry # NoFile THEN text_read(result.entry).v
                       ELSE result.input)
  /\ (HeaderDone /\ result.entry # NoFile) => result.kind = text_read(result.entry).kind
  /\ PostDone =>
       /\ result.signing.key = load_key(FsAtCall(result), result.input).key
       /\ result.signing.load = load_key(FsAtCall(result), result.input).load

C9_SameAgain ==
  (result.op = result'.op /\ result.op # "" /\ result.input = result'.input
     /\ result.entry = result'.entry /\ result.signing.message = result'.signing.message)
    => result' = result

C9_ResolutionUncached == [](C9_UsesCurrentFile) /\ [][C9_SameAgain]_vars

C9_Witness ==
  /\ HeaderDone /\ result.kind = "return"
  /\ writes >= 2
  /\ result.entry # NoFile /\ result.entry = fs[result.input]

\* C10: auth_header validates nothing: a string that names no file, PEM or not,
\* comes back as "CACertificate " plus the base64 of its UTF-8 bytes, whereas
\* the same string given as a private key fails with a KeyLoadError.
C10_CertificatePassThroughKeyFails ==
  /\ (HeaderDone /\ result.entry = NoFile) =>
       /\ result.kind = "return"
       /\ b64decode(SubSeq(result.header["AUTHORIZATION"], Len(CACertificate) + 1,
                           Len(result.header["AUTHORIZATION"]))) = encode_utf8(result.input)
  /\ (PostDone /\ result.entry = NoFile /\ ~ParsesAsKey(encode_utf8(result.input))) =>
       (result.kind = "raise" /\ result.exc = "KeyLoadError")

====
